---- MODULE Spec2Model ----
(***************************************************************************)
(* Model of integrated-deforestation-alert.js: a straight-line Earth       *)
(* Engine script that derives a Hansen loss mask and a RADD alert mask     *)
(* over an AOI, merges them, reduces the three masks to areas and reports  *)
(* them.                                                                   *)
(*                                                                         *)
(* The rasters live on a strip one Hansen pixel high.  Inputs are constant *)
(* along a column, so a column of pixels is stored once and counted        *)
(* Rows(s) times.  An image is a computed object: it has no pixel grid of  *)
(* its own and is evaluated at the scale an output asks for, so an image   *)
(* value carries one raster per scale at which the script evaluates it.    *)
(* A pixel is a mask flag and a value, as in Earth Engine.                 *)
(*                                                                         *)
(* The AOI is a set of atoms, Sub of them to a scale-10 pixel.  The sum    *)
(* reducer weights a pixel by the fraction of it that the region covers:   *)
(* the atoms of the pixel inside the AOI over the atoms of the pixel.      *)
(*                                                                         *)
(* Two things are fixed by the platform and the assets, not by the script, *)
(* and are inputs the model chooses freely:                                *)
(*  - clipRule: whether clip(AOI) keeps a pixel when the AOI contains its   *)
(*    centre, or when the AOI overlaps it at all;                          *)
(*  - origin: where the pixels of the Hansen asset lie against the grids   *)
(*    on which the reductions run.  An output pixel takes the value of the *)
(*    asset pixel under its centre, so the 30 m and the 10 m evaluation of *)
(*    the Hansen mask need not cover the same ground.                      *)
(* RADD images are evaluated at scale 10 only and are given on that grid.  *)
(*                                                                         *)
(* Areas are hectares held as integer numerators over                      *)
(* 100 * Sub * Step(ScaleHansen), the common denominator of the weights.   *)
(*                                                                         *)
(* Earth Engine behaviour the script relies on:                            *)
(*  - every variable is a deferred computation; a failure inside it shows  *)
(*    when print or Map.addLayer evaluates it, and later statements run;   *)
(*  - Map.centerObject without a callback evaluates its argument before    *)
(*    returning, so a failing AOI stops the script there;                  *)
(*  - filterDate(start, end) keeps start <= date < end;                    *)
(*  - max() of an empty collection is an image without bands, and          *)
(*    rename with one name fails on it;                                    *)
(*  - max() of a collection skips masked pixels;                           *)
(*  - reduceRegion evaluates the image on the grid of the given scale,     *)
(*    by nearest neighbour, and sums value * weight over unmasked pixels;  *)
(*    Dictionary.get of a key the reduction did not produce is an error;   *)
(*    maxPixels (1e13) is far above any pixel count of the strip and has   *)
(*    no effect.                                                           *)
(***************************************************************************)
EXTENDS Integers, Sequences, FiniteSets

\* ---- bounds of the model
NCoarse == 1
Sub == 2
NImg == 2

\* ---- constants of the script
ScaleHansen == 30
ScaleRadd == 10
ScaleCombined == 10
SqMPerHa == 10000
YearBase == 2000

VARIABLES AOI, lossyear, collection, startYear, endYear, missing,
          clipRule, origin,
          pc, hansen_loss, radd, hansenBinary, raddBinary,
          combined_deforestation, hansenArea, raddArea, combinedArea,
          reductions, console, layers

inputs == <<AOI, lossyear, collection, startYear, endYear, missing, clipRule, origin>>
images == <<hansen_loss, radd, hansenBinary, raddBinary, combined_deforestation>>
areas == <<hansenArea, raddArea, combinedArea, reductions>>
vars == <<inputs, pc, images, areas, console, layers>>

\* ---- grids
Pixels(s) == 0 .. (NCoarse * (ScaleHansen \div s) - 1)
Rows(s) == ScaleHansen \div s
Step(s) == s \div ScaleRadd
Atoms == 0 .. (NCoarse * Step(ScaleHansen) * Sub - 1)
HansenScales == {ScaleHansen, ScaleCombined}
RaddScales == {ScaleRadd, ScaleCombined}
AllScales == HansenScales \cup RaddScales

\* atoms across a pixel at scale s, and all atoms of pixel p
PixelWidth(s) == Sub * Step(s)
PixelAtoms(s, p) == (p * PixelWidth(s)) .. ((p + 1) * PixelWidth(s) - 1)
\* the atom that holds the centre of pixel p
CentreAtom(s, p) == p * PixelWidth(s) + PixelWidth(s) \div 2
\* pixels of the Hansen asset that meet the strip, the asset's grid lying
\* origin atoms before the 30 m grid; the asset pixel under the centre of
\* pixel p, and the atoms of asset pixel j
NativePixels == 0 .. NCoarse
NativeAt(s, p) == (CentreAtom(s, p) + origin) \div PixelWidth(ScaleHansen)
NativeAtoms(j) ==
  (j * PixelWidth(ScaleHansen) - origin) .. ((j + 1) * PixelWidth(ScaleHansen) - origin - 1)
\* atoms of the pixel inside the region: the covered fraction of the pixel is
\* Cov / (Sub * Step(s))
Cov(aoi, s, p) == Cardinality(PixelAtoms(s, p) \cap aoi)
\* the covered fraction over the common denominator Sub * Step(ScaleHansen)
Weight(aoi, s, p) == Cov(aoi, s, p) * (Step(ScaleHansen) \div Step(s))
\* the pixels clip(aoi) keeps, under either rule of the platform
ClipRules == {"centre", "overlap"}
Covered(aoi, s, p) ==
  IF clipRule = "centre" THEN CentreAtom(s, p) \in aoi ELSE Cov(aoi, s, p) > 0

\* ---- pixels and images
Px(m, v) == IF m THEN [m |-> TRUE, v |-> v] ELSE [m |-> FALSE, v |-> 0]
NoPx == Px(FALSE, 0)
NilImg == [st |-> "nil", bands |-> <<>>, r |-> [s \in {} |-> 0]]
ErrImg == [st |-> "err", bands |-> <<>>, r |-> [s \in {} |-> 0]]
OkImg(bands, r) == [st |-> "ok", bands |-> bands, r |-> r]
Scales(img) == DOMAIN img.r
NilArea == [st |-> "nil", v |-> 0]
ErrArea == [st |-> "err", v |-> 0]
OkArea(v) == [st |-> "ok", v |-> v]

\* ---- Earth Engine operations used by the script
\* ee.FeatureCollection(asset)
AoiOK == missing # "AOI"

\* ee.Image(asset).select('lossyear'): nearest-neighbour sample of the asset
HansenLossyear ==
  IF missing = "Hansen" THEN ErrImg
  ELSE OkImg(<<"lossyear">>,
             [s \in HansenScales |->
               [p \in Pixels(s) |->
                 Px(TRUE, lossyear[NativeAt(s, p)])]])

\* mutant: the comparison reversed
GteBug(img, k) ==
  IF img.st # "ok" THEN ErrImg
  ELSE OkImg(img.bands,
             [s \in Scales(img) |->
               [p \in Pixels(s) |->
                 LET x == img.r[s][p]
                 IN  Px(x.m, IF x.v <= k THEN 1 ELSE 0)]])

\* image.gte(k)
Gte(img, k) ==
  IF img.st # "ok" THEN ErrImg
  ELSE OkImg(img.bands,
             [s \in Scales(img) |->
               [p \in Pixels(s) |->
                 LET x == img.r[s][p]
                 IN  Px(x.m, IF x.v >= k THEN 1 ELSE 0)]])

\* mutant: zero counted as an alert
GtBug(img, k) ==
  IF img.st # "ok" THEN ErrImg
  ELSE OkImg(img.bands,
             [s \in Scales(img) |->
               [p \in Pixels(s) |->
                 LET x == img.r[s][p]
                 IN  Px(x.m, IF x.v >= k THEN 1 ELSE 0)]])

\* image.gt(k)
Gt(img, k) ==
  IF img.st # "ok" THEN ErrImg
  ELSE OkImg(img.bands,
             [s \in Scales(img) |->
               [p \in Pixels(s) |->
                 LET x == img.r[s][p]
                 IN  Px(x.m, IF x.v > k THEN 1 ELSE 0)]])

\* mutant: zeros are left present
SelfMaskBug(img) == img

\* image.selfMask()
SelfMask(img) ==
  IF img.st # "ok" THEN ErrImg
  ELSE OkImg(img.bands,
             [s \in Scales(img) |->
               [p \in Pixels(s) |->
                 LET x == img.r[s][p]
                 IN  Px(x.m /\ x.v # 0, x.v)]])

\* image.updateMask(mask)
UpdateMask(img, mask) ==
  IF img.st # "ok" \/ mask.st # "ok" THEN ErrImg
  ELSE OkImg(img.bands,
             [s \in Scales(img) \cap Scales(mask) |->
               [p \in Pixels(s) |->
                 LET x == img.r[s][p]
                     k == mask.r[s][p]
                 IN  Px(x.m /\ k.m /\ k.v # 0, x.v)]])

\* mutant: nothing is masked outside the AOI
ClipBug(img, aoi, aoiOK) == IF ~aoiOK THEN ErrImg ELSE img

\* image.clip(AOI)
Clip(img, aoi, aoiOK) ==
  IF ~aoiOK \/ img.st # "ok" THEN ErrImg
  ELSE OkImg(img.bands,
             [s \in Scales(img) |->
               [p \in Pixels(s) |->
                 LET x == img.r[s][p]
                 IN  Px(x.m /\ Covered(aoi, s, p), x.v)]])

\* image.rename('deforestation')
Rename(img, name) ==
  IF img.st # "ok" \/ Len(img.bands) # 1 THEN ErrImg
  ELSE OkImg(<<name>>, img.r)

\* ee.Date.fromYMD(y, m, d)
FromYMD(y, m, d) == y * 10000 + m * 100 + d

\* one image of the RADD collection, band 'Alert'
AlertImage(im) ==
  OkImg(<<"Alert">>,
        [s \in RaddScales |-> [p \in Pixels(s) |-> Px(p \in im.foot, im.val)]])

\* collection.filterBounds(AOI)
Footprint(im) == UNION { PixelAtoms(ScaleRadd, p) : p \in im.foot }
FilterBounds(coll, aoi) == { im \in coll : Footprint(im) \cap aoi # {} }

\* collection.filterDate(start, end): the end is exclusive
FilterDate(coll, start, end) == { im \in coll : start <= im.date /\ im.date < end }

\* mutant: a pixel masked in one image is masked in the result
MaxPxBug(pxs) ==
  IF \E x \in pxs : ~x.m THEN NoPx
  ELSE Px(TRUE, CHOOSE v \in { x.v : x \in pxs } : \A x \in pxs : x.v <= v)

\* mutant: the images are added up
CollMaxBug(imgs, scales) ==
  IF \E g \in imgs : g.st # "ok" THEN ErrImg
  ELSE IF imgs = {} THEN OkImg(<<>>, [s \in scales |-> [p \in Pixels(s) |-> NoPx]])
  ELSE OkImg((CHOOSE g \in imgs : \A h \in imgs : Len(h.bands) <= Len(g.bands)).bands,
             [s \in scales |->
               [p \in Pixels(s) |->
                 LET present == { g \in imgs : g.r[s][p].m }
                 IN  Px(present # {}, Cardinality(present))]])

\* maximum of a set of pixels: masked when every pixel is masked
MaxPx(pxs) ==
  LET present == { x \in pxs : x.m }
  IN  IF present = {} THEN NoPx
      ELSE Px(TRUE, CHOOSE v \in { x.v : x \in present } :
                      \A x \in present : x.v <= v)

\* imageCollection.max() over the images imgs, evaluated at the given scales
CollMax(imgs, scales) ==
  IF \E g \in imgs : g.st # "ok" THEN ErrImg
  ELSE IF imgs = {} THEN OkImg(<<>>, [s \in scales |-> [p \in Pixels(s) |-> NoPx]])
  ELSE OkImg((CHOOSE g \in imgs : \A h \in imgs : Len(h.bands) <= Len(g.bands)).bands,
             [s \in scales |->
               [p \in Pixels(s) |-> MaxPx({ g.r[s][p] : g \in imgs })]])

\* ee.ImageCollection(asset) ... .select('Alert').max()
RaddMax(coll) ==
  IF missing = "RADD" \/ ~AoiOK THEN ErrImg
  ELSE CollMax({ AlertImage(im) : im \in coll }, RaddScales)

\* ee.Image.pixelArea().divide(10000), in hundredths of a hectare
PixelAreaOf(s) == (s * s * 100) \div SqMPerHa
pixelArea ==
  OkImg(<<"area">>,
        [s \in AllScales |-> [p \in Pixels(s) |-> Px(TRUE, PixelAreaOf(s))]])

\* image.multiply(other)
Multiply(a, b) ==
  IF a.st # "ok" \/ b.st # "ok" THEN ErrImg
  ELSE OkImg(a.bands,
             [s \in Scales(a) \cap Scales(b) |->
               [p \in Pixels(s) |->
                 LET x == a.r[s][p]
                     y == b.r[s][p]
                 IN  Px(x.m /\ y.m, x.v * y.v)]])

\* ee.Reducer.sum() over the pixels 0 .. n of a raster, weighted by coverage
RECURSIVE WeightedSum(_, _, _, _)
WeightedSum(raster, aoi, s, n) ==
  IF n < 0 THEN 0
  ELSE WeightedSum(raster, aoi, s, n - 1)
       + (LET x == raster[n]
          IN  IF x.m THEN x.v * Weight(aoi, s, n) * Rows(s) ELSE 0)

\* mutant: a failed image is reduced to zero
ReduceRegionSumBug(img, aoi, aoiOK, s, key) ==
  IF img.st # "ok" \/ ~aoiOK THEN OkArea(0)
  ELSE IF img.bands # <<key>> THEN ErrArea
  ELSE OkArea(WeightedSum(img.r[s], aoi, s, NCoarse * Rows(s) - 1))

\* image.reduceRegion({reducer: sum, geometry: AOI, scale: s}).get(key)
ReduceRegionSum(img, aoi, aoiOK, s, key) ==
  IF img.st # "ok" \/ ~aoiOK THEN ErrArea
  ELSE IF img.bands # <<key>> THEN ErrArea
  ELSE OkArea(WeightedSum(img.r[s], aoi, s, NCoarse * Rows(s) - 1))

\* ---- the statements of the script
\* mutant: losses after endYear are masked as well
HansenLossBug(sy) ==
  Rename(Clip(UpdateMask(UpdateMask(HansenLossyear,
                                    Gte(HansenLossyear, sy - YearBase)),
                         GteBug(HansenLossyear, endYear - YearBase)),
              AOI, AoiOK),
         "deforestation")

\* lines 36-39
HansenLoss(sy) ==
  Rename(Clip(UpdateMask(HansenLossyear, Gte(HansenLossyear, sy - YearBase)),
              AOI, AoiOK),
         "deforestation")

\* lines 42-48
Radd(sy, ey) ==
  Rename(Clip(RaddMax(FilterDate(FilterBounds(collection, AOI),
                                 FromYMD(sy, 1, 1), FromYMD(ey, 12, 31))),
              AOI, AoiOK),
         "deforestation")

\* lines 51, 54
Binarize(img) == SelfMask(Gt(img, 0))

\* mutant: the RADD mask is left out of the merge
MergeBug(a, b) ==
  IF b.st # "ok" THEN ErrImg
  ELSE Clip(CollMax({a}, Scales(a) \cap Scales(b)), AOI, AoiOK)

\* lines 57-59
Merge(a, b) == Clip(CollMax({a, b}, Scales(a) \cap Scales(b)), AOI, AoiOK)

\* lines 65-89
AreaOf(img, s) ==
  ReduceRegionSum(Multiply(img, pixelArea), AOI, AoiOK, s, "deforestation")

\* ---- inputs
\* the values the script sets at lines 29-30
DefaultStartYear == 2020
DefaultEndYear == 2024

Intervals(S) == { lo .. hi : lo \in S, hi \in S } \ {{}}
AOIs == Intervals(Atoms)
LossYears == {0, 19, 23}
StartYears == {YearBase, DefaultStartYear}
EndYears == {DefaultStartYear, DefaultEndYear}
Dates == {FromYMD(DefaultStartYear - 1, 12, 31), FromYMD(DefaultStartYear, 1, 1),
          FromYMD(DefaultStartYear, 12, 31), FromYMD(DefaultEndYear, 12, 31)}
AlertValues == {0, 2}
FinePixels == Pixels(ScaleRadd)
LossRasters == [NativePixels -> LossYears]

\* the subsets of S with at most n elements
RECURSIVE UpTo(_, _)
UpTo(S, n) ==
  IF n = 0 THEN {{}}
  ELSE LET smaller == UpTo(S, n - 1)
       IN  smaller \cup { c \cup {x} : c \in smaller, x \in S }

\* images dated inside every window, alert confirmed over an interval of pixels
\* that starts at the first pixel
AreaImages ==
  [date : {FromYMD(DefaultStartYear, 6, 15)},
   foot : { f \in Intervals(FinePixels) : 0 \in f },
   val : {3}]
\* images of every date and alert value, over the first pixel or the whole strip
RaddImages ==
  [date : Dates, foot : {{0}, FinePixels}, val : AlertValues]
\* the displacements of the Hansen asset's grid, up to one pixel of it
Origins == 0 .. (PixelWidth(ScaleHansen) - 1)
\* the whole strip, its first 10 m pixel, its last 10 m pixel
SomeAOIs ==
  {Atoms, PixelAtoms(ScaleRadd, 0), PixelAtoms(ScaleRadd, NCoarse * Rows(ScaleRadd) - 1)}

\* the script's window, a one-year window, and a window from the base year
RaddWindows ==
  {<<DefaultStartYear, DefaultEndYear>>, <<DefaultStartYear, DefaultStartYear>>,
   <<YearBase, DefaultStartYear>>}

TypeInputs ==
  /\ AOI \in AOIs
  /\ lossyear \in LossRasters
  /\ collection \in SUBSET (AreaImages \cup RaddImages)
  /\ startYear \in StartYears
  /\ endYear \in EndYears
  /\ missing \in {"none", "AOI", "Hansen", "RADD"}
  /\ clipRule \in ClipRules
  /\ origin \in Origins

\* both datasets over every AOI under both clip rules, the years as the script
\* sets them, the asset's grid displaced by two 10 m pixels
InitArea ==
  /\ AOI \in AOIs
  /\ lossyear \in [NativePixels -> LossYears \ {0}]
  /\ collection \in UpTo(AreaImages, 1)
  /\ startYear = DefaultStartYear
  /\ endYear = DefaultEndYear
  /\ missing = "none"
  /\ clipRule \in ClipRules
  /\ origin = 2 * Sub

\* the Hansen raster under every choice of years, every displacement of the
\* asset's grid and both clip rules
InitHansen ==
  /\ AOI \in SomeAOIs
  /\ lossyear \in LossRasters
  /\ collection = {im \in AreaImages : im.foot = FinePixels}
  /\ startYear \in StartYears
  /\ endYear \in EndYears
  /\ missing = "none"
  /\ clipRule \in ClipRules
  /\ origin \in Origins

\* the RADD collection in detail, over an AOI of one 10 m pixel or of the
\* first atom only, which does not hold the centre of its pixel
InitRadd ==
  /\ AOI \in (SomeAOIs \ {Atoms}) \cup {{0}}
  /\ lossyear = [j \in NativePixels |-> 23]
  /\ collection \in UpTo(RaddImages, NImg)
  /\ \E w \in RaddWindows : startYear = w[1] /\ endYear = w[2]
  /\ missing = "none"
  /\ clipRule = "centre"
  /\ origin = 0

\* an asset that cannot be loaded
InitFail ==
  /\ AOI = Atoms
  /\ lossyear = [j \in NativePixels |-> 23]
  /\ collection \in UpTo(AreaImages, 1)
  /\ startYear = DefaultStartYear
  /\ endYear = DefaultEndYear
  /\ missing \in {"AOI", "Hansen", "RADD"}
  /\ clipRule \in ClipRules
  /\ origin = 0

Init ==
  /\ (InitArea \/ InitHansen \/ InitRadd \/ InitFail)
  /\ pc = "hansen_loss"
  /\ hansen_loss = NilImg
  /\ radd = NilImg
  /\ hansenBinary = NilImg
  /\ raddBinary = NilImg
  /\ combined_deforestation = NilImg
  /\ hansenArea = NilArea
  /\ raddArea = NilArea
  /\ combinedArea = NilArea
  /\ reductions = <<>>
  /\ console = <<>>
  /\ layers = <<>>

\* ---- actions, one per statement
DefHansenLoss ==
  /\ pc = "hansen_loss"
  /\ hansen_loss' = HansenLoss(startYear)
  /\ pc' = "radd"
  /\ UNCHANGED <<inputs, radd, hansenBinary, raddBinary, combined_deforestation,
                 areas, console, layers>>

DefRadd ==
  /\ pc = "radd"
  /\ radd' = Radd(startYear, endYear)
  /\ pc' = "hansenBinary"
  /\ UNCHANGED <<inputs, hansen_loss, hansenBinary, raddBinary,
                 combined_deforestation, areas, console, layers>>

DefHansenBinary ==
  /\ pc = "hansenBinary"
  /\ hansenBinary' = Binarize(hansen_loss)
  /\ pc' = "raddBinary"
  /\ UNCHANGED <<inputs, hansen_loss, radd, raddBinary, combined_deforestation,
                 areas, console, layers>>

DefRaddBinary ==
  /\ pc = "raddBinary"
  /\ raddBinary' = Binarize(radd)
  /\ pc' = "combined"
  /\ UNCHANGED <<inputs, hansen_loss, radd, hansenBinary, combined_deforestation,
                 areas, console, layers>>

DefCombined ==
  /\ pc = "combined"
  /\ combined_deforestation' = Merge(hansenBinary, raddBinary)
  /\ pc' = "hansenArea"
  /\ UNCHANGED <<inputs, hansen_loss, radd, hansenBinary, raddBinary,
                 areas, console, layers>>

Reduction(layer, img, s) ==
  [layer |-> layer, scale |-> s, geometry |-> AOI, image |-> img]

DefHansenArea ==
  /\ pc = "hansenArea"
  /\ hansenArea' = AreaOf(hansenBinary, ScaleHansen)
  /\ reductions' = Append(reductions, Reduction("hansen", hansenBinary, ScaleHansen))
  /\ pc' = "raddArea"
  /\ UNCHANGED <<inputs, images, raddArea, combinedArea, console, layers>>

DefRaddArea ==
  /\ pc = "raddArea"
  /\ raddArea' = AreaOf(raddBinary, ScaleRadd)
  /\ reductions' = Append(reductions, Reduction("radd", raddBinary, ScaleRadd))
  /\ pc' = "combinedArea"
  /\ UNCHANGED <<inputs, images, hansenArea, combinedArea, console, layers>>

DefCombinedArea ==
  /\ pc = "combinedArea"
  /\ combinedArea' = AreaOf(combined_deforestation, ScaleCombined)
  /\ reductions' = Append(reductions,
                          Reduction("combined", combined_deforestation, ScaleCombined))
  /\ pc' = "print"
  /\ UNCHANGED <<inputs, images, hansenArea, raddArea, console, layers>>

\* lines 92-94: print(label, value); a failed value shows as an error entry
Printed == <<[label |-> "Hansen", val |-> hansenArea],
             [label |-> "RADD", val |-> raddArea],
             [label |-> "Integrated", val |-> combinedArea]>>

PrintArea ==
  /\ pc = "print"
  /\ console' = Append(console, Printed[Len(console) + 1])
  /\ pc' = IF Len(console) + 1 = Len(Printed) THEN "center" ELSE "print"
  /\ UNCHANGED <<inputs, images, areas, layers>>

\* line 120: Map.centerObject(AOI, 11.5) evaluates the AOI before returning
CenterObject ==
  /\ pc = "center"
  /\ pc' = IF AoiOK THEN "layers" ELSE "halted"
  /\ UNCHANGED <<inputs, images, areas, console, layers>>

\* lines 121-124: Map.addLayer(object, vis, name); a failed object is a layer error
LayerOK(img) == img.st = "ok"
Layered == <<[name |-> "AOI Boundary", ok |-> AoiOK],
             [name |-> "Hansen Forest Loss", ok |-> LayerOK(hansen_loss)],
             [name |-> "RADD Alerts", ok |-> LayerOK(raddBinary)],
             [name |-> "Integrated Deforestation Alerts",
              ok |-> LayerOK(combined_deforestation)]>>

AddLayer ==
  /\ pc = "layers"
  /\ layers' = Append(layers, Layered[Len(layers) + 1])
  /\ pc' = IF Len(layers) + 1 = Len(Layered) THEN "done" ELSE "layers"
  /\ UNCHANGED <<inputs, images, areas, console>>

Next ==
  \/ DefHansenLoss
  \/ DefRadd
  \/ DefHansenBinary
  \/ DefRaddBinary
  \/ DefCombined
  \/ DefHansenArea
  \/ DefRaddArea
  \/ DefCombinedArea
  \/ PrintArea
  \/ CenterObject
  \/ AddLayer

Spec == Init /\ [][Next]_vars

TypeOK == TypeInputs /\ pc \in {"hansen_loss", "radd", "hansenBinary", "raddBinary",
  "combined", "hansenArea", "raddArea", "combinedArea", "print", "center",
  "layers", "halted", "done"}

\* ---- vocabulary of the properties
NativeHansen == 30
NativeRadd == 10
Present(img, s, p) == img.st = "ok" /\ s \in Scales(img) /\ img.r[s][p].m
InAOI(s, p) == Covered(AOI, s, p)
Touches(s, p) == PixelAtoms(s, p) \cap AOI # {}
LossAt(s, p) == lossyear[NativeAt(s, p)]
Threshold == startYear - YearBase
Kept ==
  FilterDate(FilterBounds(collection, AOI),
             FromYMD(startYear, 1, 1), FromYMD(endYear, 12, 31))
ClosedWindow(im) ==
  FromYMD(startYear, 1, 1) <= im.date /\ im.date <= FromYMD(endYear, 12, 31)
\* the script has run to its end, or stopped at Map.centerObject
Finished == pc \in {"done", "halted"}
Max2(a, b) == IF a >= b THEN a ELSE b
\* the area of the AOI: its atoms, each the share of a scale-10 pixel
AoiArea ==
  Cardinality(AOI) * PixelAreaOf(ScaleRadd) * Rows(ScaleRadd)
    * (Step(ScaleHansen) \div Step(ScaleRadd))
HansenAreaFor(sy) == AreaOf(Binarize(HansenLoss(sy)), ScaleHansen)
AllReduced ==
  hansenArea.st = "ok" /\ raddArea.st = "ok" /\ combinedArea.st = "ok"

\* the Hansen mask reduced on the grid of the merged layer
Hansen10 == AreaOf(hansenBinary, ScaleCombined)
\* the AOI is made of whole pixels of scale s
Aligned(s) == \A p \in Pixels(s) : Cov(AOI, s, p) \in {0, PixelWidth(s)}
StatusOf(ok) == IF ok THEN "ok" ELSE "err"

\* C1 as stated, where the three areas are printed as values:
\* max(hansenArea, raddArea) <= combinedArea <= hansenArea + raddArea, with
\* hansenArea reduced at scale 30 and the other two at scale 10.
C1_UnionBoundPrinted ==
  AllReduced =>
    /\ Max2(hansenArea.v, raddArea.v) <= combinedArea.v
    /\ combinedArea.v <= hansenArea.v + raddArea.v

\* C1 amended: with the AOI and both datasets loaded, hansenArea is a value;
\* raddArea and combinedArea are values when an image passes the filters and
\* errors when none does; and where the three are values,
\* max(h10, raddArea) <= combinedArea <= h10 + raddArea, h10 being the area of
\* the Hansen mask reduced at scale 10, the scale of the merged layer.
C1_UnionBoundAtScale10 ==
  (Finished /\ missing = "none") =>
    /\ hansenArea.st = "ok"
    /\ raddArea.st = StatusOf(Kept # {})
    /\ combinedArea.st = StatusOf(Kept # {})
    /\ AllReduced =>
         /\ Max2(Hansen10.v, raddArea.v) <= combinedArea.v
         /\ combinedArea.v <= Hansen10.v + raddArea.v

\* both masks present and overlapping in part, and the Hansen mask measuring
\* differently at scale 30 and at scale 10
C1_Witness ==
  /\ Finished /\ AllReduced
  /\ combinedArea.v > Hansen10.v /\ combinedArea.v > raddArea.v
  /\ combinedArea.v < Hansen10.v + raddArea.v
  /\ hansenArea.v # Hansen10.v

\* C2: for the same AOI and loss-year raster the Hansen area never grows when
\* startYear grows.
C2_MonotoneInStartYear ==
  (Finished /\ hansenArea.st = "ok") =>
    \A sy \in StartYears \cup EndYears :
      /\ sy >= startYear => HansenAreaFor(sy).v <= hansenArea.v
      /\ sy <= startYear => HansenAreaFor(sy).v >= hansenArea.v

C2_Witness ==
  /\ hansenArea.st = "ok"
  /\ \E sy \in StartYears \cup EndYears :
       sy > startYear /\ HansenAreaFor(sy).v < hansenArea.v

\* no image dated in the window has an alert on a pixel of the AOI
NoAlertInWindow ==
  \A im \in collection :
    (ClosedWindow(im) /\ im.val > 0) => \A p \in im.foot : ~Touches(ScaleRadd, p)

\* C3 as stated: with no alert for the AOI inside the window, the case of an
\* empty filtered collection included, raddArea is 0 and no error.
C3_NoAlertsZero ==
  (Finished /\ missing = "none" /\ NoAlertInWindow) =>
    raddArea = OkArea(0)

\* C3 amended: with no alert for the AOI inside the window, raddArea is 0 when
\* at least one image passes filterBounds and filterDate, and an error when
\* none does.
C3_NoAlertsZeroUnlessEmpty ==
  (Finished /\ missing = "none" /\ NoAlertInWindow) =>
    raddArea = (IF Kept = {} THEN ErrArea ELSE OkArea(0))

C3_Witness ==
  /\ raddArea = OkArea(0) /\ missing = "none" /\ NoAlertInWindow
  /\ Kept # {}
  /\ \E im \in collection : im.val > 0

\* C4: every present pixel of a binarized image is 1, every input pixel that
\* is absent or <= 0 is absent, and binarizing the output again returns it.
BinaryOf(inp, out) ==
  out.st = "ok" =>
    /\ \A s \in Scales(out) : \A p \in Pixels(s) :
         /\ out.r[s][p].m => out.r[s][p].v = 1
         /\ (~inp.r[s][p].m \/ inp.r[s][p].v <= 0) => ~out.r[s][p].m
    /\ Binarize(out) = out

C4_BinarizerIdempotent ==
  Finished => BinaryOf(hansen_loss, hansenBinary) /\ BinaryOf(radd, raddBinary)

C4_Witness ==
  /\ hansenBinary.st = "ok" /\ raddBinary.st = "ok"
  /\ \E s \in HansenScales : \E p \in Pixels(s) :
       hansen_loss.r[s][p].m /\ hansen_loss.r[s][p].v = 0
  /\ \E p \in FinePixels : Present(raddBinary, ScaleRadd, p)

\* C5: a pixel of the merged layer is present, with value 1, exactly when it
\* lies in the AOI and is present in hansenBinary or in raddBinary.
C5_MergeIsUnion ==
  (Finished /\ combined_deforestation.st = "ok") =>
    \A p \in Pixels(ScaleCombined) :
      /\ Present(combined_deforestation, ScaleCombined, p)
           <=> /\ InAOI(ScaleCombined, p)
               /\ \/ Present(hansenBinary, ScaleCombined, p)
                  \/ Present(raddBinary, ScaleCombined, p)
      /\ Present(combined_deforestation, ScaleCombined, p)
           => combined_deforestation.r[ScaleCombined][p].v = 1

C5_Witness ==
  \E p \in Pixels(ScaleCombined) :
    /\ Present(hansenBinary, ScaleCombined, p)
    /\ ~Present(raddBinary, ScaleCombined, p)
    /\ raddBinary.st = "ok"
    /\ Present(combined_deforestation, ScaleCombined, p)

\* every Hansen pixel of the AOI has a loss year >= startYear - 2000
FullLoss ==
  \A j \in NativePixels : NativeAtoms(j) \cap AOI # {} => lossyear[j] >= Threshold
PositiveLoss ==
  \A j \in NativePixels : NativeAtoms(j) \cap AOI # {} => lossyear[j] > 0
\* every 10 m pixel of the AOI has an alert > 0 in an image the filters keep
FullAlert ==
  \A p \in FinePixels :
    Touches(ScaleRadd, p) => \E im \in Kept : p \in im.foot /\ im.val > 0
FullCoverage ==
  Finished /\ missing = "none" /\ FullLoss /\ FullAlert

\* C6 as stated: under full coverage hansenArea, raddArea and combinedArea all
\* equal the area of the AOI.
C6_FullCoverageEqualsAoi ==
  FullCoverage =>
    /\ hansenArea = OkArea(AoiArea)
    /\ raddArea = OkArea(AoiArea)
    /\ combinedArea = OkArea(AoiArea)

\* C6 amended: under full coverage with every loss year also > 0, the three
\* areas are values, combinedArea equals raddArea and not the sum, and none
\* exceeds the area of the AOI; raddArea and combinedArea equal it when the
\* AOI is made of whole 10 m pixels, hansenArea when it is made of whole 30 m
\* pixels.
C6_FullCoverageWholePixels ==
  (FullCoverage /\ PositiveLoss) =>
    /\ AllReduced
    /\ combinedArea = raddArea
    /\ raddArea.v <= AoiArea /\ hansenArea.v <= AoiArea
    /\ Aligned(ScaleRadd) => raddArea.v = AoiArea
    /\ Aligned(ScaleHansen) => hansenArea.v = AoiArea

\* full coverage of an AOI of whole 10 m pixels that cuts a 30 m pixel
C6_Witness ==
  /\ FullCoverage /\ PositiveLoss
  /\ pc = "done"
  /\ Aligned(ScaleRadd) /\ ~Aligned(ScaleHansen)
  /\ raddArea.v = AoiArea /\ combinedArea = raddArea
  /\ hansenArea.v < AoiArea
  /\ \E p \in FinePixels : Present(hansenBinary, ScaleCombined, p)

\* C7: each reduction runs at the native resolution of the dataset measured
\* (Hansen 30, RADD 10, merged 10) over the AOI, on an image already clipped
\* to that AOI.
NativeOf(layer) == IF layer = "hansen" THEN NativeHansen ELSE NativeRadd
HansenOK == missing \notin {"AOI", "Hansen"}
RaddOK == missing \notin {"AOI", "RADD"} /\ Kept # {}

\* C8 as stated: once a printed value is an error, no later area value is
\* printed and no map layer is registered.
C8_FailureHaltsScript ==
  \A i \in DOMAIN console :
    console[i].val.st = "err" =>
      /\ \A j \in DOMAIN console : j > i => console[j].val.st # "ok"
      /\ layers = <<>>

\* C8 amended: a failed step is not retried and fails exactly the outputs
\* computed from it: each area is printed once, as a value when its datasets
\* and the AOI load and as an error otherwise; each layer is registered once,
\* in error exactly when its input failed; only a missing AOI stops the
\* script, at Map.centerObject.
C8_ErrorsFollowDependencies ==
  /\ Len(console) <= 3 /\ Len(layers) <= 4
  /\ console # <<>> =>
       LET h == HansenOK
           r == RaddOK
       IN  /\ \A i \in DOMAIN console :
                console[i].val.st = StatusOf(<<h, r, h /\ r>>[i])
           /\ \A i \in DOMAIN layers :
                layers[i].ok = <<AoiOK, h, r, h /\ r>>[i]
  /\ console = <<>> => layers = <<>>
  /\ pc = "done" => Len(console) = 3 /\ Len(layers) = 4
  /\ pc = "halted" => ~AoiOK /\ Len(console) = 3 /\ layers = <<>>

C8_Witness ==
  /\ pc = "done"
  /\ console[1].val.st = "err"
  /\ console[2].val.st = "ok"
  /\ layers[3].ok /\ ~layers[2].ok

\* C9: hansen_loss keeps exactly the AOI pixels whose loss year is
\* >= startYear - 2000, whatever endYear is, and hansenBinary those among
\* them whose loss year is > 0.
C9_LowerBoundOnly ==
  Finished =>
  /\ hansen_loss.st = "ok" =>
       /\ hansen_loss.bands = <<"deforestation">>
       /\ \A s \in HansenScales : \A p \in Pixels(s) :
            hansen_loss.r[s][p]
              = Px(InAOI(s, p) /\ LossAt(s, p) >= Threshold, LossAt(s, p))
  /\ hansenBinary.st = "ok" =>
       \A s \in HansenScales : \A p \in Pixels(s) :
         hansenBinary.r[s][p].m
           <=> (InAOI(s, p) /\ LossAt(s, p) >= Threshold /\ LossAt(s, p) > 0)

C9_Witness ==
  /\ pc = "done"
  /\ hansenArea.st = "ok" /\ hansenArea.v > 0
  /\ \E p \in Pixels(ScaleHansen) :
       /\ hansen_loss.r[ScaleHansen][p].m
       /\ hansen_loss.r[ScaleHansen][p].v > endYear - YearBase

\* C10 as stated: the images kept are those that intersect the AOI and are
\* dated in the closed window [startYear-01-01, endYear-12-31], and a pixel of
\* the AOI is present in raddBinary exactly when a kept image has Alert > 0
\* there.
C10_ClosedDateWindow ==
  (Finished /\ missing = "none") =>
    \A p \in FinePixels :
      InAOI(ScaleRadd, p) =>
        (Present(raddBinary, ScaleRadd, p)
           <=> \E im \in FilterBounds(collection, AOI) :
                 ClosedWindow(im) /\ p \in im.foot /\ im.val > 0)
====
